---- MODULE Spec2Model ----
(***************************************************************************)
(* new.py: copy a template file or directory from the template store into  *)
(* the current directory.  Strings are sequences of one-character strings, *)
(* the file system is a function from absolute paths (sequences of path    *)
(* components) to nodes.                                                   *)
(***************************************************************************)
EXTENDS Integers, Sequences, FiniteSets, TLC

VARIABLES fs, dirOrder, argv, pc, templates, target, filenames, targetpath,
          dests, idx, stdout, ans, tty, askDefault, askResult,
          exitStatus, attempts, fs0

vars == <<fs, dirOrder, argv, pc, templates, target, filenames, targetpath,
          dests, idx, stdout, ans, tty, askDefault, askResult,
          exitStatus, attempts, fs0>>

-----------------------------------------------------------------------------
(* Bounds of the model *)

\* most children the template store holds
MaxChildren == 2
\* most output names on the command line
MaxNames == 2

-----------------------------------------------------------------------------
(* Strings *)

\* the characters str.strip() removes
Whitespace == {" ", "\t"}

RECURSIVE LStrip(_)
LStrip(s) == IF s # <<>> /\ s[1] \in Whitespace THEN LStrip(Tail(s)) ELSE s

RECURSIVE RStrip(_)
RStrip(s) ==
    IF s # <<>> /\ s[Len(s)] \in Whitespace
    THEN RStrip(SubSeq(s, 1, Len(s) - 1))
    ELSE s

\* str.strip()
Strip(s) == RStrip(LStrip(s))

UpperCase == <<"A", "B", "C", "D", "E", "F", "G", "H", "I", "J", "K", "L", "M",
               "N", "O", "P", "Q", "R", "S", "T", "U", "V", "W", "X", "Y", "Z">>

LowerCase == <<"a", "b", "c", "d", "e", "f", "g", "h", "i", "j", "k", "l", "m",
               "n", "o", "p", "q", "r", "s", "t", "u", "v", "w", "x", "y", "z">>

LowerChar(c) ==
    IF \E i \in 1..26 : UpperCase[i] = c
    THEN LowerCase[CHOOSE i \in 1..26 : UpperCase[i] = c]
    ELSE c

\* str.lower()
Lower(s) == [i \in 1..Len(s) |-> LowerChar(s[i])]

\* the characters of the model in code point order
CodeOrder == <<"\t", " ", ".", "/">> \o UpperCase \o <<"_">> \o LowerCase

Code(c) == CHOOSE i \in 1..Len(CodeOrder) : CodeOrder[i] = c

\* s < t as Python compares strings
RECURSIVE StrLess(_, _)
StrLess(s, t) ==
    IF t = <<>> THEN FALSE
    ELSE IF s = <<>> THEN TRUE
    ELSE IF s[1] = t[1] THEN StrLess(Tail(s), Tail(t))
    ELSE Code(s[1]) < Code(t[1])

Spaces(n) == [i \in 1..n |-> " "]

EndsWith(s, c) == s # <<>> /\ s[Len(s)] = c

-----------------------------------------------------------------------------
(* os.path on strings *)

\* os.path.join(a, b)
Join(a, b) ==
    IF b # <<>> /\ b[1] = "/" THEN b
    ELSE IF a = <<>> \/ EndsWith(a, "/") THEN a \o b
    ELSE a \o <<"/">> \o b

LastIndex(s, c) ==
    IF \E i \in 1..Len(s) : s[i] = c
    THEN CHOOSE i \in 1..Len(s) : s[i] = c /\ \A j \in (i + 1)..Len(s) : s[j] # c
    ELSE 0

\* os.path.basename(p)
Basename(p) == SubSeq(p, LastIndex(p, "/") + 1, Len(p))

\* os.path.splitext(p)[0]: the last dot starts the extension, unless only
\* dots precede it in the last component
SplitextRoot(p) ==
    LET sep == LastIndex(p, "/")
        dot == LastIndex(p, ".")
    IN  IF dot > sep /\ \E i \in (sep + 1)..(dot - 1) : p[i] # "."
        THEN SubSeq(p, 1, dot - 1)
        ELSE p

\* the components of a path string, split at "/"
RECURSIVE Split(_)
Split(s) ==
    IF s = <<>> THEN << <<>> >>
    ELSE LET r == Split(Tail(s))
         IN  IF s[1] = "/" THEN << <<>> >> \o r
             ELSE << <<s[1]>> \o r[1] >> \o Tail(r)

-----------------------------------------------------------------------------
(* The file system *)

Dir == [kind |-> "dir", content |-> <<>>]
File(c) == [kind |-> "file", content |-> c]

Parent(p) == IF p = <<>> THEN p ELSE SubSeq(p, 1, Len(p) - 1)

IsPrefix(p, q) == Len(p) <= Len(q) /\ SubSeq(q, 1, Len(p)) = p

IsDirPath(f, p) == p \in DOMAIN f /\ f[p].kind = "dir"
IsFilePath(f, p) == p \in DOMAIN f /\ f[p].kind = "file"

Children(f, p) == {q \in DOMAIN f : Len(q) = Len(p) + 1 /\ IsPrefix(p, q)}

\* path resolution as the kernel does it: every component but the last is
\* looked up in an existing directory
RECURSIVE WalkFrom(_, _, _)
WalkFrom(f, cur, comps) ==
    IF comps = <<>> THEN [ok |-> TRUE, path |-> cur]
    ELSE IF ~IsDirPath(f, cur) THEN [ok |-> FALSE, path |-> cur]
    ELSE LET c == Head(comps)
         IN  IF c = <<>> \/ c = <<".">> THEN WalkFrom(f, cur, Tail(comps))
             ELSE IF c = <<".", ".">> THEN WalkFrom(f, Parent(cur), Tail(comps))
             ELSE WalkFrom(f, Append(cur, c), Tail(comps))

Resolve(f, s) == WalkFrom(f, <<>>, Split(s))

\* os.path.exists, os.path.isdir, os.path.isfile
Exists(f, s) == LET r == Resolve(f, s) IN r.ok /\ r.path \in DOMAIN f
IsDir(f, s) == LET r == Resolve(f, s) IN r.ok /\ IsDirPath(f, r.path)
IsFile(f, s) == LET r == Resolve(f, s) IN r.ok /\ IsFilePath(f, r.path)

\* os.mkdir(s) where the parent exists and s does not
Mkdir(f, s) == LET r == Resolve(f, s) IN (r.path :> Dir) @@ f

\* shutil.copyfile(src, dst): [fs, ok]
CopyFile(f, src, dst) ==
    LET rs == Resolve(f, src)
        rd == Resolve(f, dst)
    IN  IF ~(rs.ok /\ IsFilePath(f, rs.path)) THEN [fs |-> f, ok |-> FALSE]
        ELSE IF ~rd.ok THEN [fs |-> f, ok |-> FALSE]
        ELSE IF rd.path = rs.path THEN [fs |-> f, ok |-> FALSE]
        ELSE IF IsDirPath(f, rd.path) THEN [fs |-> f, ok |-> FALSE]
        ELSE [fs |-> (rd.path :> File(f[rs.path].content)) @@ f, ok |-> TRUE]

\* a mutant of Copy: never redirects into an existing directory
CopyNoRedirect(f, src, dst) == CopyFile(f, src, dst)

\* shutil.copy(src, dst) and shutil.copy2(src, dst)
Copy(f, src, dst) ==
    IF IsDir(f, dst)
    THEN CopyFile(f, src, Join(dst, Basename(src)))
    ELSE CopyFile(f, src, dst)

\* os.makedirs(s, exist_ok=True): [fs, ok]
RECURSIVE MakeDirsFrom(_, _, _)
MakeDirsFrom(f, cur, comps) ==
    IF comps = <<>> THEN [fs |-> f, ok |-> TRUE]
    ELSE LET c == Head(comps)
         IN  IF c = <<>> \/ c = <<".">> THEN MakeDirsFrom(f, cur, Tail(comps))
             ELSE IF c = <<".", ".">> THEN MakeDirsFrom(f, Parent(cur), Tail(comps))
             ELSE LET p == Append(cur, c)
                  IN  IF IsFilePath(f, p) THEN [fs |-> f, ok |-> FALSE]
                      ELSE IF IsDirPath(f, p) THEN MakeDirsFrom(f, p, Tail(comps))
                      ELSE MakeDirsFrom((p :> Dir) @@ f, p, Tail(comps))

MakeDirs(f, s) == MakeDirsFrom(f, <<>>, Split(s))

\* shutil.copytree(src, dst, dirs_exist_ok=True): [fs, ok].  A failing entry
\* is recorded and the remaining entries are still copied.
RECURSIVE CopyTree(_, _, _)
RECURSIVE CopyEntries(_, _, _, _)
CopyEntries(f, src, dst, todo) ==
    IF todo = {} THEN [fs |-> f, ok |-> TRUE]
    ELSE LET q == CHOOSE x \in todo : TRUE
             name == q[Len(q)]
             one == IF IsDirPath(f, q)
                    THEN CopyTree(f, Join(src, name), Join(dst, name))
                    ELSE Copy(f, Join(src, name), Join(dst, name))
             rest == CopyEntries(one.fs, src, dst, todo \ {q})
         IN  [fs |-> rest.fs, ok |-> one.ok /\ rest.ok]

CopyTree(f, src, dst) ==
    LET made == MakeDirs(f, dst)
    IN  IF ~made.ok THEN [fs |-> f, ok |-> FALSE]
        ELSE CopyEntries(made.fs, src, dst, Children(f, Resolve(f, src).path))

-----------------------------------------------------------------------------
(* Program constants and the environment *)

\* os.getenv("HOME")
Home == <<"/", "h">>

\* os.getcwd()
Cwd == <<"/", "w">>

StoreName == <<".", "n", "e", "w", "p", "y", "_", "t", "e", "m", "p", "l", "a",
               "t", "e", "s">>

TEMPLATE_DIR == Join(Home, StoreName \o <<"/">>)

StorePath == << <<"h">>, StoreName >>
CwdPath == << <<"w">> >>

\* exit status of "raise SystemExit" (no argument: the code is None)
SystemExitStatus == 0
\* exit status of normal completion
SuccessStatus == 0
\* exit status of an uncaught exception
TracebackStatus == 1

offset == 4

-----------------------------------------------------------------------------
(* dict: a sequence of <<key, value>> pairs in insertion order *)

DictKeys(d) == {d[i][1] : i \in 1..Len(d)}

DictHas(d, k) == k \in DictKeys(d)

DictGet(d, k) == d[CHOOSE i \in 1..Len(d) : d[i][1] = k][2]

DictSet(d, k, v) ==
    IF DictHas(d, k)
    THEN [i \in 1..Len(d) |-> IF d[i][1] = k THEN <<k, v>> ELSE d[i]]
    ELSE Append(d, <<k, v>>)

KeySeq(d) == [i \in 1..Len(d) |-> d[i][1]]

-----------------------------------------------------------------------------
(* list_targets *)

\* target = os.path.splitext(basefile)[0]
TargetOf(basefile) == SplitextRoot(basefile)

\* the value stored for one child of the store
EntryOf(f, file) ==
    IF IsDir(f, Join(TEMPLATE_DIR, file))
    THEN Basename(file) \o <<"/">>
    ELSE Basename(file)

RECURSIVE ListLoop(_, _, _)
ListLoop(f, files, d) ==
    IF files = <<>> THEN d
    ELSE ListLoop(f, Tail(files),
                  DictSet(d, TargetOf(Basename(Head(files))), EntryOf(f, Head(files))))

\* the store after "if not os.path.exists(TEMPLATE_DIR): os.mkdir(TEMPLATE_DIR)"
EnsureStore(f) == IF Exists(f, TEMPLATE_DIR) THEN f ELSE Mkdir(f, TEMPLATE_DIR)

\* os.listdir(TEMPLATE_DIR): order is the order the directory yields
ListDir(f, order) == IF Exists(f, TEMPLATE_DIR) THEN order ELSE <<>>

\* a mutant of list_targets: the first entry of a name wins, later ones are dropped
RECURSIVE ListLoopDropLast(_, _, _)
ListLoopDropLast(f, files, d) ==
    IF Len(files) <= 1 THEN d
    ELSE ListLoopDropLast(f, Tail(files),
                  DictSet(d, TargetOf(Basename(Head(files))), EntryOf(f, Head(files))))

list_targets_drop(f, order) == ListLoopDropLast(EnsureStore(f), ListDir(f, order), <<>>)

list_targets(f, order) == ListLoop(EnsureStore(f), ListDir(f, order), <<>>)

-----------------------------------------------------------------------------
(* show_targets and fail: the lines printed *)

Line(msg, text) == [msg |-> msg, text |-> text]

\* dir_color(s): the string itself without colorama
dir_color(s, colorama) ==
    IF colorama THEN <<"BLUE", "BRIGHT">> \o s \o <<"RESET_ALL">> ELSE s

print_line(left, right, arrow, max_length, colorama) ==
    Line("row",
         left \o Spaces(max_length - Len(left))
              \o (IF arrow THEN <<"-", ">">> ELSE <<" ", " ">>)
              \o Spaces(offset)
              \o (IF EndsWith(right, "/") THEN dir_color(right, colorama) ELSE right))

\* sorted(keys, key=lambda v: v.lower()): a stable sort
RECURSIVE InsertKey(_, _)
InsertKey(sorted, k) ==
    IF sorted = <<>> THEN <<k>>
    ELSE IF StrLess(Lower(k), Lower(Head(sorted))) THEN <<k>> \o sorted
    ELSE <<Head(sorted)>> \o InsertKey(Tail(sorted), k)

RECURSIVE SortedKeys(_)
SortedKeys(keys) ==
    IF keys = <<>> THEN <<>>
    ELSE InsertKey(SortedKeys(SubSeq(keys, 1, Len(keys) - 1)), keys[Len(keys)])

MaxKeyLen(d) ==
    IF d = <<>> THEN 0
    ELSE CHOOSE n \in {Len(d[i][1]) : i \in 1..Len(d)} :
             \A i \in 1..Len(d) : Len(d[i][1]) <= n

show_targets(d, colorama) ==
    LET max_length == MaxKeyLen(d) + offset
        targets == SortedKeys(KeySeq(d))
    IN  << print_line(<<"N", "a", "m", "e">>,
                      <<"F", "i", "l", "e", " ", "/", " ", "D", "i", "r">>,
                      FALSE, max_length, colorama),
           print_line(<<"-", "-", "-", "-">>,
                      <<"-", "-", "-", "-", "-", "-", "-", "-", "-", "-">>,
                      FALSE, max_length, colorama) >>
        \o [i \in 1..Len(targets) |->
               print_line(targets[i], DictGet(d, targets[i]), TRUE, max_length, colorama)]
        \o << Line("blank", <<>>) >>

\* what fail(target) prints before it raises SystemExit
fail(hasTarget, t, d, colorama) ==
    << IF hasTarget THEN Line("unknown", t) ELSE Line("usage", <<>>),
       Line("available", <<>>) >>
    \o show_targets(d, colorama)

-----------------------------------------------------------------------------
(* Initial states: a store, a current directory and a command line *)

n_p_py == <<"p", ".", "p", "y">>
n_p_txt == <<"p", ".", "t", "x", "t">>
n_a_b_c == <<"a", ".", "b", ".", "c">>
n_b == <<"b">>
n_b_d == <<"b", ".", "d">>
n_f == <<"f">>
n_x == <<"x">>

\* the templates a store may hold: files, and directories holding one file f
FileTemplates == {n_p_py, n_p_txt, n_a_b_c}
DirTemplates == {n_b, n_b_d}
TemplateNames == FileTemplates \cup DirTemplates

TemplateNodes(name) ==
    IF name \in FileTemplates
    THEN (Append(StorePath, name) :> File(<<"template", name>>))
    ELSE (Append(StorePath, name) :> Dir)
         @@ (StorePath \o <<name, n_f>> :> File(<<"template", name, n_f>>))

RECURSIVE NodesOf(_)
NodesOf(names) ==
    IF names = <<>> THEN << >>
    ELSE TemplateNodes(Head(names)) @@ NodesOf(Tail(names))

\* the listings a store of at most MaxChildren distinct templates can yield
Orders ==
    {o \in UNION {[1..n -> TemplateNames] : n \in 0..MaxChildren} :
        \A i, j \in 1..Len(o) : i # j => o[i] # o[j]}

BaseFs == (<<>> :> Dir) @@ (<< <<"h">> >> :> Dir) @@ (CwdPath :> Dir)

\* what the current directory holds before the run
CwdConfigs ==
    { << >>,
      (Append(CwdPath, n_x) :> File(<<"old">>))
          @@ (Append(CwdPath, n_p_py) :> File(<<"old">>)),
      (Append(CwdPath, n_x) :> Dir) @@ (Append(CwdPath, n_f) :> File(<<"old">>)) }

\* sys.argv[1]
TargetArgs == { <<" ", "p", " ">>, <<"P">>, <<"b">> }

\* sys.argv[2:]
NameArgs == { <<" ", "x", " ">>, <<".", ".", "/", "x">>, n_p_py }

Argvs ==
    { << <<"new.py">> >> }
    \cup { << <<"new.py">>, t >> \o ns :
             t \in TargetArgs,
             ns \in UNION {[1..n -> NameArgs] : n \in 0..MaxNames} }

\* what the user may type at a prompt
Answers == { <<>>, <<"y">>, <<"Y">>, <<"n">>, <<"N">>, <<" ", "n">>,
             <<"y", "e", "s">> }

None == [isNone |-> TRUE, names |-> <<>>]
Some(ns) == [isNone |-> FALSE, names |-> ns]

Init ==
    /\ \E storeExists \in BOOLEAN, o \in Orders, c \in CwdConfigs :
          /\ (~storeExists => o = <<>>)
          /\ dirOrder = o
          /\ fs = c @@ (IF storeExists THEN (StorePath :> Dir) @@ NodesOf(o) ELSE << >>)
                    @@ BaseFs
    /\ fs0 = fs
    /\ argv \in Argvs
    /\ pc = "start"
    /\ templates = <<>>
    /\ target = <<>>
    /\ filenames = None
    /\ targetpath = <<>>
    /\ dests = <<>>
    /\ idx = 1
    /\ stdout = <<>>
    /\ ans = <<>>
    /\ tty = ""
    /\ askDefault = TRUE
    /\ askResult = TRUE
    /\ exitStatus = <<>>
    /\ attempts = <<>>

-----------------------------------------------------------------------------
(* parse_args, with fail *)

\* the process ends in fail(): the listing is printed, SystemExit is raised
Fail(hasTarget, t) ==
    \E colorama \in BOOLEAN :
        /\ fs' = EnsureStore(fs)
        /\ templates' = list_targets(fs, dirOrder)
        /\ stdout' = stdout \o fail(hasTarget, t, list_targets(fs, dirOrder), colorama)
        /\ pc' = "exit"
        /\ exitStatus' = <<SystemExitStatus>>

\* a mutant of ArgTarget: the target name is case-folded
ArgTargetFolded(av) == Lower(Strip(av[2]))

\* target and filenames as parse_args reads them from sys.argv
ArgTarget(av) == Strip(av[2])

ArgNames(av) ==
    IF Len(av) = 2 THEN None
    ELSE Some([i \in 1..(Len(av) - 2) |-> Strip(av[i + 2])])

ParseArgs ==
    /\ pc = "start"
    /\ IF Len(argv) = 1
       THEN /\ Fail(FALSE, <<>>)
            /\ UNCHANGED <<target, filenames>>
       ELSE /\ target' = ArgTarget(argv)
            /\ filenames' = ArgNames(argv)
            /\ IF ~DictHas(list_targets(fs, dirOrder), ArgTarget(argv))
               THEN Fail(TRUE, ArgTarget(argv))
               ELSE /\ fs' = EnsureStore(fs)
                    /\ templates' = list_targets(fs, dirOrder)
                    /\ pc' = "create"
                    /\ UNCHANGED <<stdout, exitStatus>>
    /\ UNCHANGED <<dirOrder, argv, targetpath, dests, idx, ans, tty,
                   askDefault, askResult, attempts, fs0>>

-----------------------------------------------------------------------------
(* create_template *)

\* the destinations create_template hands to safe_copy / safe_copytree
Dests(here, names) ==
    IF names.isNone THEN <<here>>
    ELSE [i \in 1..Len(names.names) |-> Join(here, names.names[i])]

CreateTemplate ==
    /\ pc = "create"
    /\ fs' = EnsureStore(fs)
    /\ templates' = list_targets(fs, dirOrder)
    /\ targetpath' = Join(TEMPLATE_DIR, DictGet(list_targets(fs, dirOrder), target))
    /\ dests' = Dests(Cwd, filenames)
    /\ idx' = 1
    /\ pc' = "copy"
    /\ UNCHANGED <<dirOrder, argv, target, filenames, stdout, ans, tty,
                   askDefault, askResult, exitStatus, attempts, fs0>>

Attempt(dest, prompted, outcome) ==
    [dest |-> dest, prompted |-> prompted, outcome |-> outcome]

\* the copy of one destination is made: on success the loop goes on, an
\* exception leaves the loop and ends the process
Copied(r, prompted) ==
    /\ fs' = r.fs
    /\ attempts' = Append(attempts,
                          Attempt(dests[idx], prompted, IF r.ok THEN "copied" ELSE "failed"))
    /\ IF r.ok
       THEN /\ idx' = idx + 1
            /\ pc' = "copy"
            /\ UNCHANGED exitStatus
       ELSE /\ pc' = "exit"
            /\ exitStatus' = <<TracebackStatus>>
            /\ UNCHANGED idx

\* ask_question_yn is entered
Ask(default) ==
    /\ pc' = "ask"
    /\ askDefault' = default
    /\ UNCHANGED <<fs, idx, exitStatus, attempts>>

\* safe_copytree up to the prompt or, without one, to its end
SafeCopyTree ==
    /\ pc = "copy"
    /\ idx <= Len(dests)
    /\ IsDir(fs, targetpath)
    /\ IF Exists(fs, dests[idx])
       THEN Ask(TRUE)
       ELSE /\ Copied(CopyTree(fs, targetpath, dests[idx]), FALSE)
            /\ UNCHANGED askDefault
    /\ UNCHANGED <<dirOrder, argv, templates, target, filenames, targetpath, dests,
                   stdout, ans, tty, askResult, fs0>>

\* safe_copy up to the prompt or, without one, to its end
SafeCopy ==
    /\ pc = "copy"
    /\ idx <= Len(dests)
    /\ ~IsDir(fs, targetpath)
    /\ IF IsFile(fs, dests[idx]) /\ Exists(fs, dests[idx])
       THEN Ask(TRUE)
       ELSE /\ Copied(Copy(fs, targetpath, dests[idx]), FALSE)
            /\ UNCHANGED askDefault
    /\ UNCHANGED <<dirOrder, argv, templates, target, filenames, targetpath, dests,
                   stdout, ans, tty, askResult, fs0>>

\* a mutant of Skipped: a decline ends the loop over the names
SkippedEndsLoop ==
    /\ attempts' = Append(attempts, Attempt(dests[idx], TRUE, "skipped"))
    /\ idx' = Len(dests) + 1
    /\ pc' = "copy"
    /\ UNCHANGED <<fs, exitStatus>>

\* the user declined: the destination is skipped
Skipped ==
    /\ attempts' = Append(attempts, Attempt(dests[idx], TRUE, "skipped"))
    /\ idx' = idx + 1
    /\ pc' = "copy"
    /\ UNCHANGED <<fs, exitStatus>>

\* safe_copytree after ask_question_yn has returned
SafeCopyTreeResume ==
    /\ pc = "answered"
    /\ IsDir(fs, targetpath)
    /\ IF ~askResult THEN Skipped
       ELSE Copied(CopyTree(fs, targetpath, dests[idx]), TRUE)
    /\ UNCHANGED <<dirOrder, argv, templates, target, filenames, targetpath, dests,
                   stdout, ans, tty, askDefault, askResult, fs0>>

\* safe_copy after ask_question_yn has returned
SafeCopyResume ==
    /\ pc = "answered"
    /\ ~IsDir(fs, targetpath)
    /\ IF ~askResult THEN Skipped
       ELSE Copied(Copy(fs, targetpath, dests[idx]), TRUE)
    /\ UNCHANGED <<dirOrder, argv, templates, target, filenames, targetpath, dests,
                   stdout, ans, tty, askDefault, askResult, fs0>>

\* create_template returns and the process ends
Return ==
    /\ pc = "copy"
    /\ idx > Len(dests)
    /\ pc' = "done"
    /\ exitStatus' = <<SuccessStatus>>
    /\ UNCHANGED <<fs, dirOrder, argv, templates, target, filenames, targetpath,
                   dests, idx, stdout, ans, tty, askDefault, askResult,
                   attempts, fs0>>

-----------------------------------------------------------------------------
(* ask_question_yn *)

\* a mutant of Decide: the answer is compared without lower()
DecideCaseSensitive(line, default) ==
    LET a == Strip(line)
    IN  IF a = <<>> THEN <<TRUE, default>>
        ELSE IF a = <<"y">> THEN <<TRUE, TRUE>>
        ELSE IF a = <<"n">> THEN <<TRUE, FALSE>>
        ELSE <<FALSE, FALSE>>

\* the answer the loop accepts: <<TRUE, value>>, or <<FALSE, _>> to ask again
Decide(line, default) ==
    LET a == Strip(line)
    IN  IF a = <<>> THEN <<TRUE, default>>
        ELSE IF Lower(a) = <<"y">> THEN <<TRUE, TRUE>>
        ELSE IF Lower(a) = <<"n">> THEN <<TRUE, FALSE>>
        ELSE <<FALSE, FALSE>>

\* ans = input(prompt): the prompt is printed and a line is read
AskRead ==
    /\ pc = "ask"
    /\ \E a \in Answers :
          ans' = a
    /\ tty' = "prompt"
    /\ pc' = "decide"
    /\ UNCHANGED <<fs, dirOrder, argv, templates, target, filenames, targetpath,
                   dests, idx, stdout, askDefault, askResult, exitStatus,
                   attempts, fs0>>

\* the rest of the loop body: return, or print the notice and ask again
AskDecide ==
    /\ pc = "decide"
    /\ LET d == Decide(ans, askDefault)
       IN  IF d[1]
           THEN /\ askResult' = d[2]
                /\ pc' = "answered"
                /\ ans' = <<>>
                /\ tty' = ""
           ELSE /\ tty' = "invalid"
                /\ pc' = "ask"
                /\ ans' = <<>>
                /\ UNCHANGED askResult
    /\ UNCHANGED <<fs, dirOrder, argv, templates, target, filenames, targetpath,
                   dests, idx, stdout, askDefault, exitStatus, attempts, fs0>>

-----------------------------------------------------------------------------

Next ==
    \/ ParseArgs
    \/ CreateTemplate
    \/ SafeCopyTree
    \/ SafeCopy
    \/ SafeCopyTreeResume
    \/ SafeCopyResume
    \/ Return
    \/ AskRead
    \/ AskDecide

Spec == Init /\ [][Next]_vars

\* runs over a store of at most one template and at most one output name; the
\* loop of ask_question_yn is a step of the program and is taken when enabled
InitAsk == Init /\ Len(dirOrder) <= 1 /\ Len(argv) <= 3

AskSpec == InitAsk /\ [][Next]_vars /\ WF_vars(AskDecide)

-----------------------------------------------------------------------------
(* Notions the properties share *)

\* t is s without its surrounding whitespace
IsTrimOf(t, s) ==
    \E i, j \in 0..Len(s) :
        /\ i <= j
        /\ t = SubSeq(s, i + 1, j)
        /\ \A k \in 1..i : s[k] \in Whitespace
        /\ \A k \in (j + 1)..Len(s) : s[k] \in Whitespace
        /\ t = <<>> \/ (t[1] \notin Whitespace /\ t[Len(t)] \notin Whitespace)

\* a listing has been computed and nothing was copied since
Listed == pc # "start" /\ attempts = <<>>

\* the process ended in fail()
Failed == pc = "exit" /\ attempts = <<>>

Terminated == pc \in {"done", "exit"}

StoreChildren == Children(fs, StorePath)

NameOf(q) == q[Len(q)]

\* a name without its final extension: cut at the last dot, if there is one
FinalExtRemoved(name) ==
    IF LastIndex(name, ".") = 0 THEN name
    ELSE SubSeq(name, 1, LastIndex(name, ".") - 1)

-----------------------------------------------------------------------------
(* list_targets *)

\* C7: every file child foo.ext of the store has the target name foo (only the
\* final extension removed), and every directory child is a key under its own
\* name, verbatim, with the entry name + "/".
C7_NamesDerived ==
    Listed =>
        \A q \in StoreChildren :
            IF fs[q].kind = "file"
            THEN DictHas(templates, FinalExtRemoved(NameOf(q)))
            ELSE /\ DictHas(templates, NameOf(q))
                 /\ DictGet(templates, NameOf(q)) = NameOf(q) \o <<"/">>

\* C8: after list_targets the store directory exists, the mapping is empty if
\* and only if the store has no children, and every value of the mapping names
\* a child of the store (a directory with the "/" marker appended).
C8_ListingMatchesStore ==
    Listed =>
        /\ IsDirPath(fs, StorePath)
        /\ (templates = <<>>) <=> (StoreChildren = {})
        /\ \A i \in 1..Len(templates) :
              \E q \in StoreChildren :
                  templates[i][2] =
                      IF fs[q].kind = "dir" THEN NameOf(q) \o <<"/">> ELSE NameOf(q)

\* a listing of a store that holds a directory and another child
C8_Witness ==
    /\ Listed
    /\ Len(templates) = 2
    /\ \E q \in StoreChildren : fs[q].kind = "dir"

\* the store directory was missing and list_targets created it
C8_CreatedStore ==
    Listed /\ StorePath \notin DOMAIN fs0 /\ IsDirPath(fs, StorePath)

-----------------------------------------------------------------------------
(* parse_args *)

-----------------------------------------------------------------------------
(* fail *)

\* C4: when argument validation fails (no target, or a target that is no key
\* of the listing) the process ends having printed the usage or unknown-target
\* message and then the listing, its exit status is not zero, and nothing was
\* copied.
C4_FailExitsNonZero ==
    (pc # "start" /\ (Len(argv) = 1 \/ ~DictHas(templates, target))) =>
        /\ Terminated
        /\ stdout[1] = (IF Len(argv) = 1 THEN Line("usage", <<>>)
                        ELSE Line("unknown", target))
        /\ stdout[2] = Line("available", <<>>)
        /\ Len(stdout) = 5 + Len(templates)
        /\ stdout[Len(stdout)] = Line("blank", <<>>)
        /\ exitStatus # <<>> /\ exitStatus[1] # 0
        /\ attempts = <<>> /\ dests = <<>>

-----------------------------------------------------------------------------
(* create_template *)

\* create_template is running or has run
Created == pc \notin {"start", "create"} /\ ~Failed

\* the entry of the target, and the name it has on disk
Entry == DictGet(templates, target)
OnDisk(entry) == IF EndsWith(entry, "/") THEN SubSeq(entry, 1, Len(entry) - 1) ELSE entry

\* where an output name lands
DestPath(name) == Resolve(fs0, Join(Cwd, name)).path

HasContent(f, p, c) == IsFilePath(f, p) /\ f[p].content = c

\* p is as it was before the run, or still absent
Untouched(p) == p \in DOMAIN fs => (p \in DOMAIN fs0 /\ fs[p] = fs0[p])

\* the tree below p, by relative path
Subtree(f, p) ==
    [rel \in {SubSeq(q, Len(p) + 1, Len(q)) : q \in {x \in DOMAIN f : IsPrefix(p, x)}}
        |-> f[p \o rel]]

C2_OverwriteOnlyIfConfirmed ==
    /\ \A p \in DOMAIN fs0 :
          (IsPrefix(CwdPath, p) /\ p # CwdPath /\ fs[p] # fs0[p]) =>
              \E i \in 1..Len(attempts) :
                  /\ attempts[i].prompted
                  /\ attempts[i].outcome = "copied"
                  /\ IsPrefix(Resolve(fs0, attempts[i].dest).path, p)
    /\ (pc = "done" /\ Len(attempts) = 1 /\ attempts[1].prompted) =>
          IF attempts[1].outcome = "skipped" THEN fs = fs0
          ELSE Subtree(fs, Resolve(fs, attempts[1].dest).path)
                   = Subtree(fs, Resolve(fs, targetpath).path)

\* C3: for a directory template D and no output names the tree is copied to
\* ./D, the user is prompted only if ./D existed, and the files of D are not
\* put into the current directory itself.
C3_DirCopiedUnderOwnName ==
    (Created /\ filenames.isNone /\ EndsWith(Entry, "/")) =>
        LET own == Append(CwdPath, OnDisk(Entry))
            src == Append(StorePath, OnDisk(Entry))
        IN  /\ (pc \in {"ask", "decide", "answered"}) => own \in DOMAIN fs0
            /\ (pc = "done" /\ attempts[1].outcome = "copied") =>
                  /\ Subtree(fs, own) = Subtree(fs0, src)
                  /\ \A q \in Children(fs0, src) : Untouched(Append(CwdPath, NameOf(q)))

\* C5 as claimed: when the process has ended, every name of the list was
\* attempted, in order.
C5_Claim ==
    (Terminated /\ Created /\ ~filenames.isNone) =>
        /\ Len(attempts) = Len(dests)
        /\ \A i \in 1..Len(attempts) : attempts[i].dest = dests[i]

\* C5, amended: the names are attempted in order; a decline never ends the
\* loop, so a run without a copy failure attempts every name; a copy failure
\* ends the process at that name, and the names after it are not attempted.
C5_Amended ==
    (Created /\ ~filenames.isNone) =>
        /\ Len(dests) = Len(filenames.names)
        /\ Len(attempts) <= Len(dests)
        /\ \A i \in 1..Len(attempts) : attempts[i].dest = Join(Cwd, filenames.names[i])
        /\ \A i \in 1..(Len(attempts) - 1) : attempts[i].outcome # "failed"
        /\ (pc = "done") => Len(attempts) = Len(dests)
        /\ (pc = "copy") => idx = Len(attempts) + 1
        /\ (pc = "exit") => attempts[Len(attempts)].outcome = "failed"

\* the user declined one name and a later name was still copied
C5_Witness ==
    /\ pc = "done"
    /\ ~filenames.isNone
    /\ Len(attempts) = 2
    /\ attempts[1].outcome = "skipped"
    /\ attempts[2].outcome = "copied"

\* a copy failure on the first name ended the process before the second
C5_Aborted ==
    /\ pc = "exit"
    /\ Len(dests) = 2
    /\ Len(attempts) = 1
    /\ attempts[1].outcome = "failed"

\* C6: create_template creates or changes entries under the current directory
\* only, and the contents of the template store stay as they were.
C6_WritesOnlyUnderCwd ==
    \A p \in DOMAIN fs :
        /\ (p \notin DOMAIN fs0 \/ fs[p] # fs0[p]) =>
              (IsPrefix(CwdPath, p) \/ p = StorePath)
        /\ (IsPrefix(StorePath, p) /\ p # StorePath) => Untouched(p)

-----------------------------------------------------------------------------
(* ask_question_yn *)

LiteralValid == { <<>>, <<"y">>, <<"Y">>, <<"n">>, <<"N">> }

Expected(t, default) == IF t = <<>> THEN default ELSE t \in { <<"y">>, <<"Y">> }

TrimOf(s) ==
    CHOOSE t \in {SubSeq(s, i + 1, j) : i, j \in 0..Len(s)} : IsTrimOf(t, s)

\* what the loop body does with the line it read, t being the answer in it
Answered(t) ==
    IF t \in LiteralValid
    THEN pc' = "answered" /\ askResult' = Expected(t, askDefault)
    ELSE pc' = "ask" /\ tty' = "invalid"

\* C10 as claimed: every input other than the empty line, y, Y, n and N is
\* answered with the notice and a new prompt, and the first of these five
\* returns its value.
C10_Claim ==
    [][/\ (pc = "decide") => Answered(ans)
       /\ (pc' = "answered" /\ pc # "answered") => pc = "decide"]_vars

\* C10, amended: the input is judged without its surrounding whitespace: a
\* line that is then empty, y, Y, n or N returns its value at once, any other
\* line is answered with the notice and a new prompt, the call returns from
\* nowhere else, and once such a line has been read the call does return.
C10_Amended ==
    /\ [][/\ (pc = "decide") => Answered(TrimOf(ans))
          /\ (pc' = "answered" /\ pc # "answered") => pc = "decide"
          /\ (pc = "ask") => (pc' = "decide" /\ tty' = "prompt")]_vars
    /\ ((pc = "decide" /\ TrimOf(ans) \in LiteralValid) ~> (pc = "answered"))

\* an invalid answer was met with the notice and the call asks again
C10_Witness == pc = "ask" /\ tty = "invalid"

====
